---- MODULE Spec2Model ----
(***************************************************************************)
(* Multipack sample-packing dataloader (axolotl/utils/dataloader.py).      *)
(*                                                                         *)
(* The module models                                                       *)
(*   - the first-fit-decreasing feasibility oracle ffd_check,              *)
(*   - the first-fit-decreasing packer ffd_with_result,                    *)
(*   - the generator allocate (one action per resumption),                 *)
(*   - MultipackDistributedDataloader: the producer thread                 *)
(*     (_generate_batches_thread / generate_batches), the bounded          *)
(*     batch_queue and the consumer generator __iter__, plus the length    *)
(*     estimate _len_est / __len__.                                        *)
(*                                                                         *)
(* Arrays are TLA+ sequences (1-based); the values stored in them that are *)
(* positions of the source (sample indices, start_index, rank) keep the    *)
(* source's 0-based numbering.                                             *)
(***************************************************************************)
EXTENDS Integers, Sequences, FiniteSets, TLC

VARIABLES
    \* ---- MultipackDistributedDataloader fields --------------------------
    lengths,                \* self.lengths: token count of every sample
    seq_max_length,         \* self.seq_max_length
    batch_size,             \* self.batch_size
    multiplier,             \* self.sample_packing_seq_len_multiplier
    efficiency_pct,         \* self.packing_efficiency_estimate, in 1/100
    device_count,           \* self.device_count
    total_num_tokens,       \* self.total_num_tokens (0 stands for None)
    eff_total_used,         \* self.eff_total_used
    eff_total_slots,        \* self.eff_total_slots
    batch_queue,            \* self.batch_queue, a FIFO of bins and markers
    sampler,                \* self.sampler: [kind, epoch]
    \* ---- environment ------------------------------------------------------
    argsort_ties,           \* order np.argsort leaves equal keys in
    \* ---- the producer thread ----------------------------------------------
    thread,                 \* frame of _generate_batches_thread
    alloc,                  \* frame of the generator allocate(...)
    rounds,                 \* every round allocate has emitted (all n bins)
    \* ---- the consumer generator __iter__ ------------------------------------
    iter,                   \* frame of __iter__
    yielded,                \* what this __iter__ has yielded so far
    passes,                 \* number of __iter__ calls that returned
    \* ---- direct calls of the pure functions -----------------------------
    call                    \* arguments and results of one direct call

vars == << lengths, seq_max_length, batch_size, multiplier, efficiency_pct,
           device_count, total_num_tokens, eff_total_used, eff_total_slots,
           batch_queue, sampler, argsort_ties, thread, alloc, rounds, iter,
           yielded, passes, call >>

loaderVars == << lengths, seq_max_length, batch_size, multiplier,
                 efficiency_pct, device_count, total_num_tokens,
                 eff_total_used, eff_total_slots, batch_queue, sampler,
                 thread, iter, yielded, passes >>

----------------------------------------------------------------------------
(* Bounds of the model *)

MaxItems == 4        \* longest array handed to the pure functions / allocate
MaxSize == 3         \* largest item size in those arrays
MaxCap == 3          \* largest bin capacity c
MaxBins == 3         \* largest bin count n handed to ffd_check
MaxRanks == 2        \* largest worker count n handed to allocate
MaxBase == 2         \* largest base index handed to the packer

----------------------------------------------------------------------------
(* Array helpers *)

RECURSIVE Sum(_)
Sum(a) == IF a = << >> THEN 0 ELSE Head(a) + Sum(Tail(a))

Max2(x, y) == IF x >= y THEN x ELSE y
Min2(x, y) == IF x <= y THEN x ELSE y

\* Python slice a[lo:hi] for 0 <= lo, 0 <= hi: out-of-range ends are clamped.
Slice(a, lo, hi) ==
    LET l == Min2(lo, Len(a))
        h == Min2(hi, Len(a))
    IN  IF h <= l THEN << >> ELSE [i \in 1 .. (h - l) |-> a[l + i]]

\* np.concatenate(arrays): the arrays one after the other.
RECURSIVE Flatten(_)
Flatten(arrays) == IF arrays = << >> THEN << >>
                   ELSE Head(arrays) \o Flatten(Tail(arrays))

\* np.cumsum(a)
Cumsum(a) == [i \in 1 .. Len(a) |-> Sum(SubSeq(a, 1, i))]

\* Whether 0-based position i comes before position j when a is put in
\* descending order.  np.argsort(a)[::-1] leaves the order of equal keys to
\* the sort; argsort_ties picks one of the two orders a sort can leave.
Before(a, i, j) ==
    \/ a[i + 1] > a[j + 1]
    \/ /\ a[i + 1] = a[j + 1]
       /\ IF argsort_ties = "high_first" THEN i > j ELSE i < j

\* np.argsort(a)[::-1]: the 0-based positions of a in descending order of
\* size.
ArgsortDesc(a) ==
    [k \in 1 .. Len(a) |->
        CHOOSE i \in 0 .. Len(a) - 1 :
            Cardinality({j \in 0 .. Len(a) - 1 : Before(a, j, i)}) = k - 1]

\* np.sort(a)[::-1]
SortDesc(a) ==
    [k \in 1 .. Len(a) |->
        a[1 + CHOOSE i \in 0 .. Len(a) - 1 :
                Cardinality({j \in 0 .. Len(a) - 1 :
                    \/ a[j + 1] > a[i + 1]
                    \/ a[j + 1] = a[i + 1] /\ j < i}) = k - 1]]

\* np.searchsorted(arr, v, "right") on a non-decreasing arr: the number of
\* leading elements that are <= v.
SearchsortedRight(arr, v) ==
    Cardinality({i \in 1 .. Len(arr) : arr[i] <= v})

----------------------------------------------------------------------------
(* ffd_check *)

\* for idx in range(n): if bins[idx] >= size: ... break
\* The 1-based position of the first bin with room for size, 0 when none.
FirstFit(bins, size) ==
    IF \E idx \in 1 .. Len(bins) : bins[idx] >= size
    THEN CHOOSE idx \in 1 .. Len(bins) :
            /\ bins[idx] >= size
            /\ \A e \in 1 .. idx - 1 : bins[e] < size
    ELSE 0

\* TakeRoom with the subtraction lost: the bin keeps all its room.
TakeRoomLost(bins, idx, size) == bins

\* bins[idx] -= size
TakeRoom(bins, idx, size) == [bins EXCEPT ![idx] = @ - size]

\* The loop of ffd_check from item k of the sorted array on.  The result
\* records the verdict, the bins as the loop left them and the number of
\* items placed before the function returned.
RECURSIVE FfdCheckLoop(_, _, _)
FfdCheckLoop(sorted, k, bins) ==
    IF k > Len(sorted)
    THEN [ok |-> TRUE, bins |-> bins, placed |-> k - 1]
    ELSE LET idx == FirstFit(bins, sorted[k])
         IN  IF idx = 0
             THEN [ok |-> FALSE, bins |-> bins, placed |-> k - 1]
             ELSE FfdCheckLoop(sorted, k + 1, TakeRoom(bins, idx, sorted[k]))

\* FfdCheckRun with the sort lost: first fit in the order given.
FfdCheckRunUnsorted(a, c, n) ==
    FfdCheckLoop(a, 1, [idx \in 1 .. n |-> c])

FfdCheckRun(a, c, n) ==
    FfdCheckLoop(SortDesc(a), 1, [idx \in 1 .. n |-> c])

ffd_check(a, c, n) == FfdCheckRun(a, c, n).ok

----------------------------------------------------------------------------
(* ffd_with_result *)

\* PackItem with the `break` of the inner loop lost: the item is put in
\* every bin that has room for it.
PackItemNoBreak(st, size, item, c) ==
    IF \E idx \in 1 .. Len(st.bins) : st.bins[idx] >= size
    THEN [bins |-> [idx \in 1 .. Len(st.bins) |->
                       IF st.bins[idx] >= size THEN st.bins[idx] - size
                       ELSE st.bins[idx]],
          bins_result |-> [idx \in 1 .. Len(st.bins) |->
                       IF st.bins[idx] >= size
                       THEN Append(st.bins_result[idx], item)
                       ELSE st.bins_result[idx]]]
    ELSE [bins |-> Append(st.bins, c - size),
          bins_result |-> Append(st.bins_result, << item >>)]

\* One pass of the packer's loop body for item a_id (1-based position in
\* the sorted order) of size `size` and original index `item`.
PackItem(st, size, item, c) ==
    LET idx == FirstFit(st.bins, size)
    IN  IF idx # 0
        THEN [bins |-> TakeRoom(st.bins, idx, size),
              bins_result |->
                  [st.bins_result EXCEPT ![idx] = Append(@, item)]]
        ELSE [bins |-> Append(st.bins, c - size),
              bins_result |-> Append(st.bins_result, << item >>)]

RECURSIVE PackLoop(_, _, _, _, _, _)
PackLoop(a, indices, a_id, st, c, start_index) ==
    IF a_id > Len(a)
    THEN st
    ELSE PackLoop(a, indices, a_id + 1,
                  PackItem(st, a[indices[a_id] + 1],
                           indices[a_id] + start_index, c),
                  c, start_index)

\* Returns (bins_result, len(a)); `bins` is the room left in each bin when
\* the function returns.
ffd_with_result(a, c, start_index) ==
    LET st == PackLoop(a, ArgsortDesc(a), 1,
                       [bins |-> << >>, bins_result |-> << >>],
                       c, start_index)
    IN  [bins_result |-> st.bins_result, tot |-> Len(a), bins |-> st.bins]

----------------------------------------------------------------------------
(* allocate: a generator; AllocNext is one resumption of its frame *)

\* The frame of allocate(lengths, lengths_cumsum, rank, c, n) before its
\* first resumption.  left, right and batch are the locals of the round
\* computed last.
NewAlloc(ls, rank, c, n) ==
    [lengths |-> ls, lengths_cumsum |-> Cumsum(ls), rank |-> rank,
     c |-> c, n |-> n,
     s |-> 0, start_index |-> 0, nresult |-> 0,
     left |-> 0, right |-> 0, batch |-> << >>,
     state |-> "suspended"]

\* right = 1 + np.searchsorted(lengths_cumsum[start_index:], s + c * n, "right")
SearchUpper(al) ==
    1 + SearchsortedRight(
            Slice(al.lengths_cumsum, al.start_index, Len(al.lengths_cumsum)),
            al.s + al.c * al.n)

\* Feasible asking the oracle for one bin too many.
FeasibleOneMore(al, mid) ==
    ffd_check(Slice(al.lengths, al.start_index, al.start_index + mid),
              al.c, al.n + 1)

\* ffd_check(lengths[start_index : start_index + mid], c, n)
Feasible(al, mid) ==
    ffd_check(Slice(al.lengths, al.start_index, al.start_index + mid),
              al.c, al.n)

\* while right - left > 1: mid = (left + right) // 2 ...
\* trace lists the (left, right) pairs the loop passes through.
RECURSIVE BinarySearch(_, _, _, _)
BinarySearch(al, left, right, trace) ==
    IF right - left > 1
    THEN LET mid == (left + right) \div 2
         IN  IF Feasible(al, mid)
             THEN BinarySearch(al, mid, right, Append(trace, << mid, right >>))
             ELSE BinarySearch(al, left, mid, Append(trace, << left, mid >>))
    ELSE [left |-> left, right |-> right, trace |-> trace]

\* RoundAccepted stopping also when the packer returns just n bins.
RoundAcceptedStrict(batch, n) == ~(Len(batch) <= n)

\* RoundAccepted stopping only when the packer returns no bin at all.
RoundAcceptedNonEmpty(batch, n) == Len(batch) > 0

\* if len(batch) < n: break
RoundAccepted(batch, n) == ~(Len(batch) < n)

\* Advance moving the cursor by one item whatever the window was.
AdvanceByOne(start_index, left) == start_index + 1

\* start_index += left
Advance(start_index, left) == start_index + left

\* One resumption of the generator: the body of `while True` up to the
\* yield or the break.  out is the yielded tuple
\* (batch[rank], tot_seqs, s, len(result) * c * n).
AllocNext(al) ==
    LET found  == BinarySearch(al, 1, SearchUpper(al),
                               << << 1, SearchUpper(al) >> >>)
        left   == found.left
        packed == ffd_with_result(
                      Slice(al.lengths, al.start_index, al.start_index + left),
                      al.c, al.start_index)
        batch  == packed.bins_result
        start2 == Advance(al.start_index, left)
        s2     == al.lengths_cumsum[start2]
    IN  IF ~RoundAccepted(batch, al.n)
        THEN [frame |-> [al EXCEPT !.left = left, !.right = found.right,
                                   !.batch = batch, !.state = "returned"],
              yields |-> FALSE,
              out |-> << >>]
        ELSE [frame |-> [al EXCEPT !.left = left, !.right = found.right,
                                   !.batch = batch,
                                   !.start_index = start2, !.s = s2,
                                   !.nresult = @ + 1],
              yields |-> TRUE,
              out |-> [batch |-> batch[al.rank + 1], tot_seqs |-> packed.tot,
                       s |-> s2,
                       slots |-> (al.nresult + 1) * al.c * al.n]]

----------------------------------------------------------------------------
(* Input domains *)

RECURSIVE ArraysOfLen(_, _)
ArraysOfLen(k, vals) ==
    IF k = 0 THEN { << >> }
    ELSE { Append(a, v) : a \in ArraysOfLen(k - 1, vals), v \in vals }

\* Every array of at most k items with values in vals.
Arrays(k, vals) == UNION { ArraysOfLen(j, vals) : j \in 0 .. k }

TieOrders == { "high_first", "low_first" }

NoCall == [fn |-> "none"]

\* The dataloader object and its threads, not constructed: the value the
\* loader variables keep in the specifications of the pure functions.
NoLoader ==
    /\ lengths = << >>
    /\ seq_max_length = 1
    /\ batch_size = 1
    /\ multiplier = 1
    /\ efficiency_pct = 100
    /\ device_count = 1
    /\ total_num_tokens = 0
    /\ eff_total_used = 0
    /\ eff_total_slots = 0
    /\ batch_queue = << >>
    /\ sampler = [kind |-> "none", epoch |-> 0]
    /\ thread = [pc |-> "unstarted", faulted |-> FALSE]
    /\ iter = [pc |-> "idle", len_remaining |-> 0]
    /\ yielded = << >>
    /\ passes = 0

----------------------------------------------------------------------------
(* SpecPure: direct calls of ffd_check and ffd_with_result *)

InitPure ==
    /\ NoLoader
    /\ argsort_ties \in TieOrders
    /\ alloc = NewAlloc(<< >>, 0, 1, 1)
    /\ rounds = << >>
    /\ \E a \in Arrays(MaxItems, 0 .. MaxSize), c \in 1 .. MaxCap :
           call = [fn |-> "none", a |-> a, c |-> c]

CallFfdCheck ==
    /\ call.fn = "none"
    /\ \E n \in 0 .. MaxBins :
           call' = [fn |-> "ffd_check", a |-> call.a, c |-> call.c, n |-> n,
                    run |-> FfdCheckRun(call.a, call.c, n)]
    /\ UNCHANGED << loaderVars, argsort_ties, alloc, rounds >>

CallFfdWithResult ==
    /\ call.fn = "none"
    /\ \E b \in 0 .. MaxBase :
           call' = [fn |-> "ffd_with_result", a |-> call.a, c |-> call.c,
                    start_index |-> b,
                    ret |-> ffd_with_result(call.a, call.c, b)]
    /\ UNCHANGED << loaderVars, argsort_ties, alloc, rounds >>

NextPure == CallFfdCheck \/ CallFfdWithResult

SpecPure == InitPure /\ [][NextPure]_vars

----------------------------------------------------------------------------
(* SpecAlloc: the generator allocate driven to exhaustion *)

InitAlloc ==
    /\ NoLoader
    /\ argsort_ties \in TieOrders
    /\ call = NoCall
    /\ rounds = << >>
    /\ \E ls \in Arrays(MaxItems, 0 .. MaxSize), c \in 1 .. MaxCap,
          n \in 1 .. MaxRanks :
         \E rank \in 0 .. n - 1 :
           alloc = NewAlloc(ls, rank, c, n)

\* next(alloc_iter) of a caller that does nothing else
AllocStep ==
    /\ alloc.state = "suspended"
    /\ LET r == AllocNext(alloc)
       IN  /\ alloc' = r.frame
           /\ rounds' = IF r.yields THEN Append(rounds, r.frame.batch)
                        ELSE rounds
    /\ UNCHANGED << loaderVars, argsort_ties, call >>

NextAlloc == AllocStep

SpecAlloc == InitAlloc /\ [][NextAlloc]_vars

----------------------------------------------------------------------------
(* MultipackDistributedDataloader *)

QueueMaxSize == 10      \* queue.Queue(maxsize=10)
NumReplicas == 1        \* self.num_replicas = 1
Rank == 0               \* self.rank = 0

MaxSamples == 12        \* largest uniform dataset of the loader
MaxMixed == 2           \* longest dataset of mixed sample lengths
MaxSeqLen == 2          \* largest seq_max_length
MaxDevices == 4         \* the device_count tried besides 1
MaxPasses == 2          \* __iter__ calls on one dataloader

\* What batch_queue holds: a bin (a list of sample indices) or None, the
\* terminal marker.
None == [is_none |-> TRUE, batch |-> << >>]
Bin(batch) == [is_none |-> FALSE, batch |-> batch]

\* c = self.seq_max_length * self.sample_packing_seq_len_multiplier
Capacity == seq_max_length * multiplier

\* indices = [idx for idx in self.sampler] / range(0, len(self.dataset)).
\* The sampler is a collaborator outside this file; what matters here is
\* that its order is a function of its epoch: the order of epoch e is
\* 0 .. N-1 rotated by e.
SamplerOrder(kind, epoch) ==
    LET N == Len(lengths)
    IN  IF kind = "none"
        THEN [k \in 1 .. N |-> k - 1]
        ELSE [k \in 1 .. N |-> (k - 1 + epoch) % N]

SamplerIndices == SamplerOrder(sampler.kind, sampler.epoch)

\* The value _len_est reads as self.total_num_tokens after its first two
\* lines: `if not self.total_num_tokens: self.total_num_tokens = np.sum(...)`.
TokensOf(total) ==
    IF total = 0 THEN Sum(lengths) ELSE total

TokensAfterLenEst == TokensOf(total_num_tokens)

\* floor(0.99 * tokens / efficiency / seq_max_length // batch_size) - 1 with
\* efficiency = pct / 100, computed exactly.
LenEstOf(tokens, devices, pct, seqlen, bsize) ==
    (99 * (tokens \div devices)) \div (pct * seqlen * bsize) - 1

\* The value _len_est returns.
LenEst ==
    LenEstOf(TokensAfterLenEst, device_count, efficiency_pct,
             seq_max_length, batch_size)

\* __len__: max(1, self._len_est())
LenQuery == Max2(1, LenEst)

\* __len__ of a dataloader that differs from this one in the configured
\* total_num_tokens and packing efficiency only.
LenQueryOf(total, pct) ==
    Max2(1, LenEstOf(TokensOf(total), device_count, pct, seq_max_length,
                     batch_size))

\* sample["attention_mask"] of dataset sample i: one 1 per token.
AttentionMask(i) == [k \in 1 .. lengths[i + 1] |-> 1]

\* self.dataset[i] as far as the attention mask goes: whether the sample
\* has the feature, and its values.
Item(i) == [present |-> TRUE, values |-> AttentionMask(i)]

\* SegmentId with the member's position lost: every member gets the same id.
SegmentIdSame(attn_mask_cum_idx, idx) == attn_mask_cum_idx + 1

\* attn_mask_cum_idx + idx + 1
SegmentId(attn_mask_cum_idx, idx) == attn_mask_cum_idx + idx + 1

\* The members of batched_data that pass `if feature in item`, as their
\* positions 1 .. len(batched_data), in order.
RECURSIVE PresentFrom(_, _)
PresentFrom(batched_data, k) ==
    IF k > Len(batched_data) THEN << >>
    ELSE IF batched_data[k].present
         THEN << k >> \o PresentFrom(batched_data, k + 1)
         ELSE PresentFrom(batched_data, k + 1)

\* The body of the consumer's loop between get() and yield for the bin
\* `batch` whose samples are batched_data: attn_mask_cum_idx = 0, then
\* member idx of the bin, if it has the feature, has its mask multiplied by
\* attn_mask_cum_idx + idx + 1, then
\* attn_mask_cum_idx += len(batched_data), then np.concatenate.
AssembleItems(batch, batched_data) ==
    LET attn_mask_cum_idx == 0
        ids     == [k \in 1 .. Len(batched_data) |->
                       SegmentId(attn_mask_cum_idx, k - 1)]
        present == PresentFrom(batched_data, 1)
        arrays  == [p \in 1 .. Len(present) |->
                       [j \in 1 .. Len(batched_data[present[p]].values) |->
                           ids[present[p]]
                               * batched_data[present[p]].values[j]]]
    IN  [members |-> batch,
         ids |-> ids,
         attention_mask |-> Flatten(arrays),
         attn_mask_cum_idx |-> attn_mask_cum_idx + Len(batched_data)]

\* The same for a bin of this dataloader's dataset.
Assemble(batch) ==
    AssembleItems(batch, [k \in 1 .. Len(batch) |-> Item(batch[k])])

\* ---- __iter__, the consumer -----------------------------------------------

\* IterStart with the call of set_epoch lost.
IterStartSameEpoch ==
    /\ iter.pc = "idle"
    /\ passes < MaxPasses
    /\ thread' = [pc |-> "started", faulted |-> FALSE]
    /\ total_num_tokens' = TokensAfterLenEst
    /\ iter' = [pc |-> "get", len_remaining |-> LenEst]
    /\ yielded' = << >>
    /\ UNCHANGED << lengths, seq_max_length, batch_size, multiplier,
                    efficiency_pct, device_count, eff_total_used,
                    eff_total_slots, batch_queue, sampler, argsort_ties,
                    alloc, rounds, passes, call >>

\* __iter__ up to its loop: set_epoch when the sampler has it, start the
\* thread, len_remaining = self._len_est().
IterStart ==
    /\ iter.pc = "idle"
    /\ passes < MaxPasses
    /\ sampler' = IF sampler.kind = "distributed"
                  THEN [sampler EXCEPT !.epoch = @ + 1] ELSE sampler
    /\ thread' = [pc |-> "started", faulted |-> FALSE]
    /\ total_num_tokens' = TokensAfterLenEst
    /\ iter' = [pc |-> "get", len_remaining |-> LenEst]
    /\ yielded' = << >>
    /\ UNCHANGED << lengths, seq_max_length, batch_size, multiplier,
                    efficiency_pct, device_count, eff_total_used,
                    eff_total_slots, batch_queue, argsort_ties, alloc,
                    rounds, passes, call >>

\* batch = self.batch_queue.get(); then either the marker ends the loop or
\* the bin is assembled and yielded.
IterGet ==
    /\ iter.pc = "get"
    /\ batch_queue # << >>
    /\ batch_queue' = Tail(batch_queue)
    /\ IF Head(batch_queue).is_none
       THEN /\ iter' = [iter EXCEPT !.pc = "join"]
            /\ UNCHANGED yielded
       ELSE /\ iter' = [iter EXCEPT !.pc = "yielded"]
            /\ yielded' = Append(yielded, Assemble(Head(batch_queue).batch))
    /\ UNCHANGED << lengths, seq_max_length, batch_size, multiplier,
                    efficiency_pct, device_count, total_num_tokens,
                    eff_total_used, eff_total_slots, sampler, argsort_ties,
                    thread, alloc, rounds, passes, call >>

\* The caller asks for the next batch: len_remaining -= 1;
\* if not len_remaining: break.
IterResume ==
    /\ iter.pc = "yielded"
    /\ iter' = [pc |-> IF iter.len_remaining - 1 = 0 THEN "join" ELSE "get",
                len_remaining |-> iter.len_remaining - 1]
    /\ UNCHANGED << lengths, seq_max_length, batch_size, multiplier,
                    efficiency_pct, device_count, total_num_tokens,
                    eff_total_used, eff_total_slots, batch_queue, sampler,
                    argsort_ties, thread, alloc, rounds, yielded, passes,
                    call >>

\* batch_gen_thread.join() returns once the thread has ended; __iter__ then
\* returns.
IterJoin ==
    /\ iter.pc = "join"
    /\ thread.pc = "finished"
    /\ iter' = [iter EXCEPT !.pc = "idle"]
    /\ passes' = passes + 1
    /\ UNCHANGED << lengths, seq_max_length, batch_size, multiplier,
                    efficiency_pct, device_count, total_num_tokens,
                    eff_total_used, eff_total_slots, batch_queue, sampler,
                    argsort_ties, thread, alloc, rounds, yielded, call >>

\* ---- _generate_batches_thread, the producer ---------------------------

\* generate_batches up to its loop: read the sampler, order the lengths,
\* create the allocator.
ThreadBegin ==
    /\ thread.pc = "started"
    /\ thread' = [thread EXCEPT !.pc = "next"] @@
                 [indices |-> SamplerIndices]
    /\ alloc' = NewAlloc([k \in 1 .. Len(lengths) |->
                             lengths[SamplerIndices[k] + 1]],
                         Rank, Capacity, NumReplicas)
    /\ rounds' = << >>
    /\ UNCHANGED << lengths, seq_max_length, batch_size, multiplier,
                    efficiency_pct, device_count, total_num_tokens,
                    eff_total_used, eff_total_slots, batch_queue, sampler,
                    argsort_ties, iter, yielded, passes, call >>

\* `for batch, tot_seqs, total_used, total_slots in alloc_iter`: the
\* allocator is resumed; when it is exhausted generate_batches returns and
\* the thread ends.
ThreadNext ==
    /\ thread.pc = "next"
    /\ LET r == AllocNext(alloc)
       IN  /\ alloc' = r.frame
           /\ IF r.yields
              THEN /\ rounds' = Append(rounds, r.frame.batch)
                   /\ thread' = [thread EXCEPT !.pc = "put"] @@
                                [out |-> r.out]
              ELSE /\ rounds' = rounds
                   /\ thread' = [pc |-> "finished",
                                 faulted |-> thread.faulted]
    /\ UNCHANGED << lengths, seq_max_length, batch_size, multiplier,
                    efficiency_pct, device_count, total_num_tokens,
                    eff_total_used, eff_total_slots, batch_queue, sampler,
                    argsort_ties, iter, yielded, passes, call >>

\* self.batch_queue.put([indices[b_idx] for b_idx in batch]), blocking
\* while the queue is full, then the statistics (set_stats=True).
ThreadPut ==
    /\ thread.pc = "put"
    /\ Len(batch_queue) < QueueMaxSize
    /\ batch_queue' = Append(batch_queue,
           Bin([k \in 1 .. Len(thread.out.batch) |->
                   thread.indices[thread.out.batch[k] + 1]]))
    /\ eff_total_used' = thread.out.s
    /\ eff_total_slots' = thread.out.slots
    /\ thread' = [pc |-> "next", faulted |-> thread.faulted,
                  indices |-> thread.indices]
    /\ UNCHANGED << lengths, seq_max_length, batch_size, multiplier,
                    efficiency_pct, device_count, total_num_tokens, sampler,
                    argsort_ties, alloc, rounds, iter, yielded, passes,
                    call >>

\* An exception raised inside generate_batches (while reading the sampler
\* or in the allocator) is caught by `except Exception`.
ThreadFault ==
    /\ thread.pc \in { "started", "next" }
    /\ thread' = [pc |-> "put_marker", faulted |-> TRUE]
    /\ UNCHANGED << lengths, seq_max_length, batch_size, multiplier,
                    efficiency_pct, device_count, total_num_tokens,
                    eff_total_used, eff_total_slots, batch_queue, sampler,
                    argsort_ties, alloc, rounds, iter, yielded, passes,
                    call >>

\* The except branch: self.batch_queue.put(None), blocking while the queue
\* is full; the thread then ends.
ThreadPutMarker ==
    /\ thread.pc = "put_marker"
    /\ Len(batch_queue) < QueueMaxSize
    /\ batch_queue' = Append(batch_queue, None)
    /\ thread' = [thread EXCEPT !.pc = "finished"]
    /\ UNCHANGED << lengths, seq_max_length, batch_size, multiplier,
                    efficiency_pct, device_count, total_num_tokens,
                    eff_total_used, eff_total_slots, sampler, argsort_ties,
                    alloc, rounds, iter, yielded, passes, call >>

\* ---- Spec: one dataloader, iterated up to MaxPasses times ------------

\* k samples of v tokens each.
Uniform(k, v) == [i \in 1 .. k |-> v]

\* The datasets tried: every short one (sample lengths up to one more than
\* the largest capacity) and the long uniform ones, which have more rounds
\* than the queue holds.
Datasets ==
    Arrays(MaxMixed, 1 .. MaxSeqLen + 1)
    \cup { Uniform(MaxSamples, v) : v \in 1 .. MaxSeqLen }

\* The state __init__ leaves.
Init ==
    /\ lengths \in Datasets
    /\ seq_max_length \in 1 .. MaxSeqLen
    /\ multiplier = 1
    /\ batch_size = 1
    /\ efficiency_pct = 100
    /\ device_count \in { 1, MaxDevices }
    /\ total_num_tokens = 0
    /\ eff_total_used = 0
    /\ eff_total_slots = 0
    /\ batch_queue = << >>
    /\ sampler \in { [kind |-> k, epoch |-> 0] : k \in { "none", "distributed" } }
    /\ argsort_ties \in TieOrders
    /\ thread = [pc |-> "unstarted", faulted |-> FALSE]
    /\ alloc = NewAlloc(<< >>, Rank, 1, NumReplicas)
    /\ rounds = << >>
    /\ iter = [pc |-> "idle", len_remaining |-> 0]
    /\ yielded = << >>
    /\ passes = 0
    /\ call = NoCall

Next ==
    \/ IterStart
    \/ IterGet
    \/ IterResume
    \/ IterJoin
    \/ ThreadBegin
    \/ ThreadNext
    \/ ThreadPut
    \/ ThreadFault
    \/ ThreadPutMarker

Spec == Init /\ [][Next]_vars

----------------------------------------------------------------------------
(* SpecLen: __len__ asked of a freshly constructed dataloader *)

\* Largest configured total_num_tokens, largest efficiency step (steps of
\* 50 per cent) and largest batch_size tried.
MaxTokens == 8
MaxEffSteps == 3
MaxBatch == 2

\* The packing efficiency estimates tried, in per cent.
EffValues == { 50 * k : k \in 1 .. MaxEffSteps }

\* self.packing_efficiency_estimate = packing_efficiency_estimate or 1.0
EfficiencyOr(pct) == IF pct = 0 THEN 100 ELSE pct

InitLen ==
    /\ lengths \in Arrays(MaxMixed, 1 .. MaxSeqLen + 1)
    /\ seq_max_length \in 1 .. MaxSeqLen
    /\ multiplier = 1
    /\ batch_size \in 1 .. MaxBatch
    /\ \E p \in { 0 } \cup EffValues : efficiency_pct = EfficiencyOr(p)
    /\ device_count \in { 1, MaxDevices }
    /\ total_num_tokens \in 0 .. MaxTokens
    /\ eff_total_used = 0
    /\ eff_total_slots = 0
    /\ batch_queue = << >>
    /\ sampler = [kind |-> "none", epoch |-> 0]
    /\ argsort_ties = "high_first"
    /\ thread = [pc |-> "unstarted", faulted |-> FALSE]
    /\ alloc = NewAlloc(<< >>, Rank, 1, NumReplicas)
    /\ rounds = << >>
    /\ iter = [pc |-> "idle", len_remaining |-> 0]
    /\ yielded = << >>
    /\ passes = 0
    /\ call = NoCall

\* len(dataloader): _len_est stores the token count it used.
CallLen ==
    /\ call.fn = "none"
    /\ total_num_tokens' = TokensAfterLenEst
    /\ call' = [fn |-> "__len__", total_num_tokens |-> total_num_tokens,
                ret |-> LenQuery]
    /\ UNCHANGED << lengths, seq_max_length, batch_size, multiplier,
                    efficiency_pct, device_count, eff_total_used,
                    eff_total_slots, batch_queue, sampler, argsort_ties,
                    thread, alloc, rounds, iter, yielded, passes >>

NextLen == CallLen

SpecLen == InitLen /\ [][NextLen]_vars

----------------------------------------------------------------------------
(* SpecAssemble: the consumer's loop body on one bin of any samples *)

\* Most members of a bin and longest attention mask tried.
MaxMembers == 3
MaxMaskLen == 2

\* The samples tried: a row of the dataset carries every feature of
\* dataset.features, its mask is any array of zeros and ones of length up
\* to MaxMaskLen, the empty one included.
Items ==
    { [present |-> TRUE, values |-> v] : v \in Arrays(MaxMaskLen, 0 .. 1) }

InitAssemble ==
    /\ NoLoader
    /\ argsort_ties = "high_first"
    /\ alloc = NewAlloc(<< >>, Rank, 1, NumReplicas)
    /\ rounds = << >>
    /\ \E k \in 1 .. MaxMembers :
         \E data \in [1 .. k -> Items] :
           call = [fn |-> "none", batched_data |-> data]

\* One pass of the loop body for a bin holding samples 0 .. k - 1.
CallAssemble ==
    /\ call.fn = "none"
    /\ call' = [fn |-> "assemble", batched_data |-> call.batched_data,
                out |-> AssembleItems(
                            [k \in 1 .. Len(call.batched_data) |-> k - 1],
                            call.batched_data)]
    /\ UNCHANGED << loaderVars, argsort_ties, alloc, rounds >>

NextAssemble == CallAssemble

SpecAssemble == InitAssemble /\ [][NextAssemble]_vars

----------------------------------------------------------------------------
(* SpecStats: len_w_stats called on a freshly constructed dataloader *)

\* len_w_stats entered with no statistics recorded (`if not
\* self.eff_total_used`): generate_batches(set_stats=True) is called on the
\* calling thread and runs up to its loop.
StatsCall ==
    /\ call.fn = "none"
    /\ eff_total_used = 0
    /\ call' = [fn |-> "len_w_stats", pc |-> "next",
                indices |-> SamplerIndices]
    /\ alloc' = NewAlloc([k \in 1 .. Len(lengths) |->
                             lengths[SamplerIndices[k] + 1]],
                         Rank, Capacity, NumReplicas)
    /\ rounds' = << >>
    /\ UNCHANGED << loaderVars, argsort_ties >>

\* `for batch, ... in alloc_iter` inside that call: the allocator is
\* resumed.  When it is exhausted generate_batches falls off its end and
\* returns None, and `batches, _ = None` raises TypeError out of
\* len_w_stats; the lines after it are not reached.
StatsNext ==
    /\ call.fn = "len_w_stats"
    /\ call.pc = "next"
    /\ LET r == AllocNext(alloc)
       IN  /\ alloc' = r.frame
           /\ IF r.yields
              THEN /\ rounds' = Append(rounds, r.frame.batch)
                   /\ call' = [fn |-> "len_w_stats", pc |-> "put",
                               indices |-> call.indices, out |-> r.out]
              ELSE /\ rounds' = rounds
                   /\ call' = [fn |-> "len_w_stats", pc |-> "raised",
                               exc |-> "TypeError"]
    /\ UNCHANGED << loaderVars, argsort_ties >>

\* self.batch_queue.put(...) on the calling thread, blocking while the
\* queue is full, then the statistics.
StatsPut ==
    /\ call.fn = "len_w_stats"
    /\ call.pc = "put"
    /\ Len(batch_queue) < QueueMaxSize
    /\ batch_queue' = Append(batch_queue,
           Bin([k \in 1 .. Len(call.out.batch) |->
                   call.indices[call.out.batch[k] + 1]]))
    /\ eff_total_used' = call.out.s
    /\ eff_total_slots' = call.out.slots
    /\ call' = [fn |-> "len_w_stats", pc |-> "next",
                indices |-> call.indices]
    /\ UNCHANGED << lengths, seq_max_length, batch_size, multiplier,
                    efficiency_pct, device_count, total_num_tokens, sampler,
                    argsort_ties, thread, alloc, rounds, iter, yielded,
                    passes >>

NextStats ==
    \/ StatsCall
    \/ StatsNext
    \/ StatsPut

SpecStats == Init /\ [][NextStats]_vars

----------------------------------------------------------------------------
(* Properties of the dataloader (Spec) *)

\* Whether the consumer can take a step: the guards of IterGet, IterResume
\* and IterJoin.
ConsumerCanStep ==
    \/ iter.pc = "get" /\ batch_queue # << >>
    \/ iter.pc = "yielded"
    \/ iter.pc = "join" /\ thread.pc = "finished"

\* Whether the thread can take a step: the guards of ThreadBegin,
\* ThreadNext, ThreadPut and ThreadPutMarker.
ThreadCanStep ==
    \/ thread.pc \in { "started", "next" }
    \/ thread.pc \in { "put", "put_marker" }
       /\ Len(batch_queue) < QueueMaxSize

\* C1: under fair scheduling of the producer thread and the consumer, one
\* iteration eventually ends.  Every step of an iteration consumes a bin,
\* advances the allocator's cursor or moves a frame forward, so an iteration
\* runs finitely many steps; it then ends exactly when no state inside an
\* iteration is left with neither the consumer nor the thread able to step.
C1_IterationEnds ==
    iter.pc # "idle" => (ConsumerCanStep \/ ThreadCanStep)

\* C2: when the allocator stops without a fault, the terminal marker is on
\* the queue after the last bin: a consumer still in its loop has the marker
\* as the last element of the queue ahead of it.
C2_MarkerAfterLastBin ==
    (thread.pc = "finished" /\ ~thread.faulted /\ iter.pc = "get") =>
        /\ batch_queue # << >>
        /\ batch_queue[Len(batch_queue)].is_none

\* C3: no reachable state has the consumer, out of its loop because the
\* round budget reached zero, waiting in join while the producer is blocked
\* putting a bin into the full queue.
C3_JoinNeverBlocked ==
    ~ /\ iter.pc = "join"
      /\ iter.len_remaining = 0
      /\ thread.pc = "put"
      /\ Len(batch_queue) = QueueMaxSize

\* C4: in one iteration the number of batches yielded never exceeds
\* __len__ = max(1, _len_est()).
C4_YieldsWithinLen ==
    Len(yielded) <= LenQuery

\* The ids written into the attention_mask feature of one yielded batch.
SegmentIds(out) ==
    { out.attention_mask[j] : j \in 1 .. Len(out.attention_mask) } \ { 0 }

\* C10: every segment id of a later round of an iteration is strictly
\* greater than every segment id of an earlier round of it.
C10_IdsGrowAcrossRounds ==
    \A r1 \in 1 .. Len(yielded) : \A r2 \in r1 + 1 .. Len(yielded) :
        \A id1 \in SegmentIds(yielded[r1]) :
            \A id2 \in SegmentIds(yielded[r2]) : id2 > id1

\* The bins this iteration's allocator has produced for the loader's rank,
\* as lists of dataset indices, in production order.
ProducedBins ==
    [r \in 1 .. Len(rounds) |->
        [k \in 1 .. Len(rounds[r][Rank + 1]) |->
            SamplerIndices[rounds[r][Rank + 1][k] + 1]]]

\* C11: after a fault in the allocation the consumer is handed the rounds
\* queued before it, in production order, all of them unless its round
\* budget ends first, and the iteration then ends: the consumer and the
\* thread are never both left unable to step.
C11_FaultEndsIterationCleanly ==
    thread.faulted =>
        /\ Len(yielded) <= Len(rounds)
        /\ \A r \in 1 .. Len(yielded) :
               r <= Len(rounds) => yielded[r].members = ProducedBins[r]
        /\ iter.pc # "idle" => (ConsumerCanStep \/ ThreadCanStep)
        /\ (iter.pc = "idle" /\ iter.len_remaining # 0) =>
               Len(yielded) = Len(rounds)

\* C14: wherever an iteration can start, the batch queue is empty.
C14_QueueEmptyAtIterationStart ==
    iter.pc = "idle" => batch_queue = << >>

\* C17: with a sampler that has set_epoch, an iteration advances the epoch
\* exactly once, and the order its thread reads is the order of the advanced
\* epoch.
C17_ThreadReadsAdvancedEpoch ==
    sampler.kind = "distributed" =>
        /\ sampler.epoch = IF iter.pc = "idle" THEN passes ELSE passes + 1
        /\ "indices" \in DOMAIN thread =>
               thread.indices = SamplerOrder("distributed", passes + 1)

\* The thread of a second iteration has read the order of epoch 2, which
\* differs from the order of epoch 1.
C17_Witness ==
    /\ sampler.kind = "distributed"
    /\ passes = 1
    /\ "indices" \in DOMAIN thread
    /\ thread.indices = SamplerOrder("distributed", 2)
    /\ thread.indices # SamplerOrder("distributed", 1)

----------------------------------------------------------------------------
(* Properties of the allocator (SpecAlloc) *)

\* Sum of the lengths of the members of a bin of the running allocator.
BinSum(bin) == Sum([k \in 1 .. Len(bin) |-> alloc.lengths[bin[k] + 1]])

\* The indices of all rounds emitted so far.
EmittedIndices ==
    UNION { { Flatten(rounds[r])[k] : k \in 1 .. Len(Flatten(rounds[r])) } :
            r \in 1 .. Len(rounds) }

ItemsLeft == Len(alloc.lengths) - alloc.start_index

RemainingTotal ==
    Sum(Slice(alloc.lengths, alloc.start_index, Len(alloc.lengths)))

\* C5: every bin of every round the allocator emits has a sum of member
\* sample lengths that is at most c, for every length array, c and n.
C5_BinsWithinCapacity ==
    \A r \in 1 .. Len(rounds) :
        \A b \in 1 .. Len(rounds[r]) : BinSum(rounds[r][b]) <= alloc.c

\* C6: the packer's bin count on the prefix the binary search chose is never
\* greater than n, at an emitted round and at the final, rejected one; so
\* every emitted round has exactly n bins, none of them empty, and the
\* caller's rank indexes one of them.
C6_RoundHasExactlyNBins ==
    /\ Len(alloc.batch) <= alloc.n
    /\ alloc.state = "returned" => Len(alloc.batch) < alloc.n
    /\ \A r \in 1 .. Len(rounds) :
          /\ Len(rounds[r]) = alloc.n
          /\ alloc.rank + 1 \in DOMAIN rounds[r]
          /\ \A b \in 1 .. Len(rounds[r]) : rounds[r][b] # << >>

\* Two rounds of two bins each have been emitted.
C6_Witness ==
    /\ alloc.n = 2
    /\ Len(rounds) = 2
    /\ alloc.state = "returned"

\* C9 as stated: once the total length of the unconsumed input is less than
\* n * c, no further round is emitted.
C9_NoRoundBelowFullBins ==
    [][RemainingTotal < alloc.n * alloc.c => rounds' = rounds]_vars

\* C9 as amended: once fewer than n items are left unconsumed (for n = 1:
\* none), no further round is emitted; whatever is left from the cursor on
\* is dropped: every emitted index lies before the cursor.
C9_NoRoundBelowNItems ==
    [][/\ ItemsLeft < alloc.n => rounds' = rounds
       /\ \A i \in EmittedIndices' : i < alloc.start_index']_vars

\* After a first round, a non-empty remainder of fewer than n items was
\* dropped.
C9_Witness ==
    /\ alloc.state = "returned"
    /\ Len(rounds) >= 1
    /\ ItemsLeft >= 1
    /\ ItemsLeft < alloc.n

\* The binary search of the round the suspended allocator computes next.
NextSearch ==
    BinarySearch(alloc, 1, SearchUpper(alloc),
                 << << 1, SearchUpper(alloc) >> >>)

\* The positions of a round, over all its bins.
Window(batch) ==
    { Flatten(batch)[k] : k \in 1 .. Len(Flatten(batch)) }

\* C13: in every round, each (left, right) pair of the binary search has a
\* left the oracle accepts and a right it rejects or that is the upper end
\* of the range, and the length chosen is accepted and is the largest
\* accepted length below upper.
C13_SearchFindsMaximalAccepted ==
    [][alloc' # alloc =>
          LET upper == SearchUpper(alloc)
              trace == NextSearch.trace
          IN  /\ alloc'.left = NextSearch.left
              /\ \A i \in 1 .. Len(trace) :
                    /\ Feasible(alloc, trace[i][1])
                    /\ trace[i][2] >= upper \/ ~Feasible(alloc, trace[i][2])
              /\ Feasible(alloc, alloc'.left)
              /\ \A L \in 1 .. upper - 1 :
                    Feasible(alloc, L) => L <= alloc'.left]_vars

\* C15: the cursor is 0 before the first round; an emitted round moves it
\* forward by the window length, which is at least 1, the round holds just
\* the positions between the old and the new cursor, the cursor stays
\* within the input and the rounds number at most len(lengths); a step that
\* emits no round leaves the cursor alone.
C15_WindowsContiguous ==
    [][alloc' # alloc =>
          /\ Len(rounds) = 0 => alloc.start_index = 0
          /\ IF Len(rounds') = Len(rounds) + 1
             THEN /\ alloc'.left >= 1
                  /\ alloc'.start_index = alloc.start_index + alloc'.left
                  /\ Window(rounds'[Len(rounds')]) =
                         alloc.start_index .. alloc'.start_index - 1
                  /\ alloc'.start_index <= Len(alloc.lengths)
                  /\ Len(rounds') <= Len(alloc.lengths)
             ELSE /\ rounds' = rounds
                  /\ alloc'.start_index = alloc.start_index]_vars

\* Two rounds were emitted, the second with a window of two items or more.
C15_Witness ==
    /\ Len(rounds) = 2
    /\ alloc.left >= 2
    /\ alloc.start_index = Len(Flatten(rounds[1])) + alloc.left
    /\ alloc.state = "suspended"

\* The number of times position pos was handed to the caller's rank.
TimesEmitted(pos) ==
    Cardinality({ rk \in { << r, k >> : r \in 1 .. Len(rounds),
                                        k \in 1 .. MaxItems + 1 } :
                    /\ rk[2] <= Len(rounds[rk[1]][alloc.rank + 1])
                    /\ rounds[rk[1]][alloc.rank + 1][rk[2]] = pos })

\* C19: with n = 1 and every sample length in 1 .. c, no position is ever
\* emitted twice, and when the allocator stops the cursor is at the end of
\* the input and every position was emitted exactly once.
C19_SingleRankCoversInput ==
    (/\ alloc.n = 1
     /\ \A i \in 1 .. Len(alloc.lengths) : alloc.lengths[i] \in 1 .. alloc.c)
    => /\ \A pos \in 0 .. Len(alloc.lengths) - 1 : TimesEmitted(pos) <= 1
       /\ alloc.state = "returned" =>
             /\ alloc.start_index = Len(alloc.lengths)
             /\ \A pos \in 0 .. Len(alloc.lengths) - 1 : TimesEmitted(pos) = 1

\* A single-rank allocator stopped after two or more rounds over three or
\* more samples, all of them within the capacity.
C19_Witness ==
    /\ alloc.n = 1
    /\ Len(alloc.lengths) >= 3
    /\ \A i \in 1 .. Len(alloc.lengths) : alloc.lengths[i] \in 1 .. alloc.c
    /\ alloc.state = "returned"
    /\ Len(rounds) >= 2
    /\ \E r \in 1 .. Len(rounds) : Len(rounds[r][1]) >= 2

----------------------------------------------------------------------------
(* Properties of the pure functions (SpecPure) *)

\* C7: the bins ffd_with_result returns partition {b, ..., b + len(a) - 1}:
\* no index twice (in one bin or in two), every index in some bin; the
\* returned item count is len(a).
C7_PackerPartitions ==
    call.fn = "ffd_with_result" =>
        LET flat == Flatten(call.ret.bins_result)
        IN  /\ Len(flat) = Len(call.a)
            /\ { flat[k] : k \in 1 .. Len(flat) } =
                   call.start_index .. call.start_index + Len(call.a) - 1
            /\ call.ret.tot = Len(call.a)

\* The packer was handed three or more items at a base other than 0 and
\* opened two or more bins, one of them holding two or more items.
C7_Witness ==
    /\ call.fn = "ffd_with_result"
    /\ call.start_index > 0
    /\ Len(call.a) >= 3
    /\ Len(call.ret.bins_result) >= 2
    /\ \E b \in 1 .. Len(call.ret.bins_result) :
           Len(call.ret.bins_result[b]) >= 2

\* C8: ffd_check returns true only if sum(a) <= n * c, and then it has
\* placed every item; it returns false at the first item (largest first)
\* that fits in none of the n bins, with nothing placed after it.
C8_OracleNecessaryCondition ==
    call.fn = "ffd_check" =>
        LET run    == call.run
            sorted == SortDesc(call.a)
            used   == call.n * call.c - Sum(run.bins)
        IN  /\ run.ok => /\ Sum(call.a) <= call.n * call.c
                         /\ run.placed = Len(call.a)
                         /\ used = Sum(call.a)
            /\ ~run.ok => /\ run.placed < Len(call.a)
                          /\ \A idx \in 1 .. call.n :
                                 run.bins[idx] < sorted[run.placed + 1]
                          /\ used = Sum(SubSeq(sorted, 1, run.placed))
            /\ \A idx \in 1 .. call.n : run.bins[idx] >= 0

\* The oracle accepted three or more items that fill two or more bins to
\* the brim: the bound sum(a) <= n * c is tight.
C8_Witness ==
    /\ call.fn = "ffd_check"
    /\ call.run.ok
    /\ call.n >= 2
    /\ Len(call.a) >= 3
    /\ Sum(call.a) = call.n * call.c

\* Whether no item of a is larger than c.
AllFit(a, c) == \A k \in 1 .. Len(a) : a[k] <= c

\* C18: for n >= 1 the oracle accepts (a, c, n) exactly when every item of
\* a is at most c and the packer opens at most n bins for (a, c), whatever
\* the base index; stated at a call of either function about the other.
C18_OracleAgreesWithPacker ==
    /\ (call.fn = "ffd_check" /\ call.n >= 1) =>
           \A b \in 0 .. MaxBase :
               call.run.ok <=>
                   /\ AllFit(call.a, call.c)
                   /\ Len(ffd_with_result(call.a, call.c, b).bins_result)
                          <= call.n
    /\ call.fn = "ffd_with_result" =>
           \A n \in 1 .. MaxBins :
               ffd_check(call.a, call.c, n) <=>
                   /\ AllFit(call.a, call.c)
                   /\ Len(call.ret.bins_result) <= n

\* The oracle accepted three or more items for just the number of bins, two
\* or more, that the packer opens for them.
C18_Witness ==
    /\ call.fn = "ffd_check"
    /\ call.run.ok
    /\ call.n >= 2
    /\ Len(call.a) >= 3
    /\ Len(ffd_with_result(call.a, call.c, 0).bins_result) = call.n
    /\ ~ffd_check(call.a, call.c, call.n - 1)

----------------------------------------------------------------------------
(* Properties of the length query (SpecLen) *)

\* C12: with everything else fixed, the value of __len__ does not grow when
\* the packing efficiency estimate grows and does not shrink when the
\* configured total_num_tokens grows, for every pair of configured token
\* counts t1 <= t2 from 0 on.
C12_LenMonotone ==
    call.fn = "__len__" =>
        /\ \A t2 \in call.total_num_tokens .. MaxTokens :
               LenQueryOf(t2, efficiency_pct) >= call.ret
        /\ \A p2 \in EffValues :
               p2 >= efficiency_pct =>
                   LenQueryOf(call.total_num_tokens, p2) <= call.ret

----------------------------------------------------------------------------
(* Properties of the assembled round (SpecAssemble) *)

\* What C16 says of an assembled round of k members: k distinct positive
\* ids, and the mask of the output is, member after member, a run of the
\* member's id as long as the member's own mask, the ids growing from one
\* member to the next.
OneRunPerMember ==
    LET data == call.batched_data
        out  == call.out
        runs == [i \in 1 .. Len(data) |->
                    [j \in 1 .. Len(data[i].values) |-> out.ids[i]]]
    IN  /\ Cardinality(SegmentIds(out)) = Len(data)
        /\ out.attention_mask = Flatten(runs)
        /\ \A i \in 1 .. Len(data) : out.ids[i] > 0
        /\ \A i \in 2 .. Len(data) : out.ids[i] > out.ids[i - 1]

\* C16 as stated: every assembled round has one run per member.
C16_EachMemberOneId ==
    call.fn = "assemble" => OneRunPerMember

\* Whether a sample has an attention mask that is non-empty and all ones.
FullMask(item) ==
    /\ item.present
    /\ item.values # << >>
    /\ \A j \in 1 .. Len(item.values) : item.values[j] = 1

\* C16 as amended: a round all of whose members have a non-empty mask of
\* ones only has one run per member.
C16_FullMaskMembersOneId ==
    (/\ call.fn = "assemble"
     /\ \A i \in 1 .. Len(call.batched_data) : FullMask(call.batched_data[i]))
    => OneRunPerMember

\* A round of three members with full masks of two different lengths was
\* assembled.
C16_Witness ==
    /\ call.fn = "assemble"
    /\ Len(call.batched_data) = 3
    /\ \A i \in 1 .. 3 : FullMask(call.batched_data[i])
    /\ Len(call.batched_data[1].values) # Len(call.batched_data[2].values)
    /\ Len(call.out.attention_mask) >= 4

----------------------------------------------------------------------------
(* Properties of len_w_stats (SpecStats) *)

\* C20: a call of len_w_stats on a dataloader without statistics never
\* raises and never waits on the queue, whatever the number of rounds, and
\* when it has returned the value is max(1, estimate) and the batch queue
\* is empty.
C20_LenWStatsReturns ==
    call.fn = "len_w_stats" =>
        /\ call.pc # "raised"
        /\ call.pc = "put" => Len(batch_queue) < QueueMaxSize
        /\ call.pc = "returned" =>
               /\ call.ret = LenQuery
               /\ batch_queue = << >>

====
